---- MODULE Spec2Model ----
(***************************************************************************)
(* Model of comparison_app.py: the sheet loader, the chunked duplicate     *)
(* matcher and the "Find Duplicates" button handler.                       *)
(*                                                                         *)
(* A text value is a sequence of Unicode code points.  A spreadsheet cell   *)
(* is a tagged value: a text, or the missing marker (pandas NaN).          *)
(* A row is [id |-> cell, src |-> <<sheet, line>>]: its identifier cell    *)
(* and a payload column that records where the row was read from.          *)
(***************************************************************************)
EXTENDS Integers, Sequences, FiniteSets, TLC

VARIABLES
    pc,              \* position of the running code
    caller,          \* "matcher" | "loader" | "app": who entered the code
    upload,          \* loader call: the uploaded file
    sheet_names_to_load, \* loader call: requested sheet names
    file1, file2,    \* app: the two uploaded files
    file1_selected_sheets, file2_selected_sheets, \* app: multiselect values
    df1, df2,        \* the two row collections
    chunk_size,      \* find_duplicates parameter
    total,           \* find_duplicates local: len(df1)
    valid_ids_set,   \* find_duplicates local: the lookup set
    start,           \* find_duplicates loop variable
    duplicates,      \* find_duplicates local: list of enriched chunks
    progress,        \* last value handed to progress_bar.progress
    status_text,     \* content of the status placeholder
    result,          \* value returned by find_duplicates / the loader
    msgs,            \* messages written to the page, in order
    raised,          \* exception that escaped, or "none"
    fd_calls,        \* number of times find_duplicates was entered
    download         \* TRUE once the download button is rendered

vars == <<pc, caller, upload, sheet_names_to_load, file1, file2,
          file1_selected_sheets, file2_selected_sheets, df1, df2,
          chunk_size, total, valid_ids_set, start, duplicates, progress,
          status_text, result, msgs, raised, fd_calls, download>>

fdVars == <<chunk_size, total, valid_ids_set, start, duplicates, progress,
            status_text>>
appVars == <<file1, file2, file1_selected_sheets, file2_selected_sheets>>
loaderVars == <<upload, sheet_names_to_load>>

----------------------------------------------------------------------------
(* Bounds of the model *)

MaxRows1 == 3
MaxRows2 == 2
MaxChunk == 2
MaxSheetRows == 2
MaxAppRows == 1
MaxRequested == 2

\* the default of find_duplicates' chunk_size parameter
DefaultChunkSize == 500

----------------------------------------------------------------------------
(* Cells, texts and rows *)

NaN == [kind |-> "nan", s |-> <<>>]
Str(s) == [kind |-> "str", s |-> s]

\* "A1", " A1 ", "a1", "nan", and "A1" between a vertical tab (U+000B) and a
\* no-break space (U+00A0)
T_A1 == <<65, 49>>
T_A1pad == <<32, 65, 49, 32>>
T_a1 == <<97, 49>>
T_nan == <<110, 97, 110>>
T_A1ws == <<11, 65, 49, 160>>

\* identifier cells of the two collections of a direct find_duplicates call
Cells1 == {NaN, Str(T_A1), Str(T_A1pad), Str(T_a1)}
Cells2 == {NaN, Str(T_A1), Str(T_A1pad), Str(T_A1ws), Str(T_nan)}

\* identifier cells of the sheets handed to the loader and to the app
LoaderCells == {NaN, Str(T_A1), Str(T_A1pad), Str(T_A1ws)}
File1Cells == {NaN, Str(T_A1)}
File2Cells == {NaN, Str(T_A1pad)}

RequestNames == {"S1", "S2", "S3"}

\* the code points str.strip() removes (those with str.isspace()):
\* U+0009-000D, U+001C-001F, U+0020, U+0085, U+00A0, U+1680, U+2000-200A,
\* U+2028, U+2029, U+202F, U+205F, U+3000
Whitespace ==
    (9..13) \cup (28..31) \cup {32, 133, 160, 5760} \cup (8192..8202)
    \cup {8232, 8233, 8239, 8287, 12288}

\* str.lstrip() / str.rstrip() / str.strip() with no argument
RECURSIVE lstrip(_)
lstrip(s) ==
    IF s = <<>> THEN <<>>
    ELSE IF Head(s) \in Whitespace THEN lstrip(Tail(s)) ELSE s

RECURSIVE rstrip(_)
rstrip(s) ==
    IF s = <<>> THEN <<>>
    ELSE IF s[Len(s)] \in Whitespace THEN rstrip(SubSeq(s, 1, Len(s) - 1))
    ELSE s

strip(s) == rstrip(lstrip(s))

\* Series.astype(str) on one cell: the missing marker becomes the text nan
astype_str(c) == IF c.kind = "nan" THEN T_nan ELSE c.s

\* variant: the identifier is also case-folded
Standardize_casefold(c) ==
    LET t == strip(astype_str(c))
    IN [k \in 1..Len(t) |-> IF t[k] \in 97..122 THEN t[k] - 32 ELSE t[k]]

\* .astype(str).str.strip() on one cell
Standardize(c) == strip(astype_str(c))

isna(c) == c.kind = "nan"

Row(c, sheet, i) == [id |-> c, src |-> <<sheet, i>>]

\* the right-hand columns of a left-join row that found no partner
NaNRow == [id |-> NaN, src |-> <<"", 0>>]

\* a collection read from one sheet: row i carries identifier cell ids[i]
Frame(ids, sheet) == [i \in 1..Len(ids) |-> Row(ids[i], sheet, i)]

SeqsUpTo(S, n) == UNION {[1..k -> S] : k \in 0..n}

\* variant: the parts are concatenated last to first
RECURSIVE Flatten_reversed(_)
Flatten_reversed(ss) ==
    IF ss = <<>> THEN <<>> ELSE Flatten_reversed(Tail(ss)) \o Head(ss)

\* pd.concat(parts, ignore_index=True)
RECURSIVE Flatten(_)
Flatten(ss) == IF ss = <<>> THEN <<>> ELSE Head(ss) \o Flatten(Tail(ss))

----------------------------------------------------------------------------
(* find_duplicates *)

\* set(df2[id_column_2].dropna().astype(str).str.strip().tolist())
ValidIdsSet(d2) ==
    {Standardize(d2[j].id) : j \in {k \in 1..Len(d2) : ~isna(d2[k].id)}}

\* min(start + chunk_size, total)
ChunkEnd(st, cs, tot) == IF st + cs < tot THEN st + cs ELSE tot

\* variant: the slice starts one row late (iloc[start+1:end])
Chunk_late(d1, st, en) ==
    [k \in 1..(en - st - 1) |->
        [left |-> d1[st + 1 + k],
         Standard_ID |-> Standardize(d1[st + 1 + k].id)]]

\* df1.iloc[start:end] with the added Standard_ID column
Chunk(d1, st, en) ==
    [k \in 1..(en - st) |->
        [left |-> d1[st + k], Standard_ID |-> Standardize(d1[st + k].id)]]

\* chunk[chunk['Standard_ID'].isin(valid_ids_set)]
MatchedChunk(chunk, valid) ==
    SelectSeq(chunk, LAMBDA r : r.Standard_ID \in valid)

\* the merge key: rows of df2 whose id_column_2 value equals the left key
MergeKeyEq(sid, c) == c = Str(sid)

\* rows of the right collection joined to one left row (how='left')
JoinRow(l, d2) ==
    LET hits == SelectSeq(d2, LAMBDA r : MergeKeyEq(l.Standard_ID, r.id))
    IN IF hits = <<>>
       THEN <<[left |-> l.left, Standard_ID |-> l.Standard_ID,
               right |-> NaNRow]>>
       ELSE [k \in 1..Len(hits) |->
               [left |-> l.left, Standard_ID |-> l.Standard_ID,
                right |-> hits[k]]]

\* matched_chunk.merge(df2, left_on='Standard_ID', right_on=id_column_2,
\*                     how='left')
RECURSIVE Merge(_, _)
Merge(matched, d2) ==
    IF matched = <<>> THEN <<>>
    ELSE JoinRow(Head(matched), d2) \o Merge(Tail(matched), d2)

Msg(sev, what, arg) == [sev |-> sev, what |-> what, arg |-> arg]
NoStatus == Msg("", "", 0)

\* lines 54-61: locals, progress bar, lookup set
FdBegin ==
    /\ pc = "fd_call"
    /\ duplicates' = <<>>
    /\ total' = Len(df1)
    /\ progress' = <<0, 1>>
    /\ valid_ids_set' = ValidIdsSet(df2)
    /\ status_text' = Msg("info", "lookup_set", Cardinality(ValidIdsSet(df2)))
    /\ start' = 0
    /\ fd_calls' = fd_calls + 1
    /\ pc' = "fd_loop"
    /\ UNCHANGED <<caller, loaderVars, appVars, df1, df2, chunk_size, result,
                   msgs, raised, download>>

\* variant: the loop body runs once before the bound is tested
LoopHasNext_dowhile(st, tot) == st < tot \/ st = 0

\* the guard of `for start in range(0, total, chunk_size)`
LoopHasNext(st, tot) == st < tot

\* lines 63-82: one iteration of the chunk loop
FdChunk ==
    /\ pc = "fd_loop"
    /\ LoopHasNext(start, total)
    /\ LET end == ChunkEnd(start, chunk_size, total)
           chunk == Chunk(df1, start, end)
           matched_chunk == MatchedChunk(chunk, valid_ids_set)
           enriched == Merge(matched_chunk, df2)
       IN /\ duplicates' = IF matched_chunk # <<>>
                           THEN Append(duplicates, enriched)
                           ELSE duplicates
          /\ IF total = 0
             THEN /\ raised' = "ZeroDivisionError"
                  /\ pc' = "raised"
                  /\ UNCHANGED <<progress, status_text, start>>
             ELSE /\ progress' = <<end, total>>
                  /\ status_text' = Msg("info", "processing", end)
                  /\ start' = start + chunk_size
                  /\ UNCHANGED <<raised, pc>>
    /\ UNCHANGED <<caller, loaderVars, appVars, df1, df2, chunk_size, total,
                   valid_ids_set, result, msgs, fd_calls, download>>

\* lines 84-93: clear the widgets, concatenate, report, return
FdEnd ==
    /\ pc = "fd_loop"
    /\ ~LoopHasNext(start, total)
    /\ status_text' = NoStatus
    /\ progress' = <<0, 0>>
    /\ IF duplicates # <<>>
       THEN /\ result' = Flatten(duplicates)
            /\ msgs' = Append(msgs, Msg("success", "found",
                                        Len(Flatten(duplicates))))
       ELSE /\ result' = <<>>
            /\ msgs' = Append(msgs, Msg("success", "none_found", 0))
    /\ pc' = "fd_return"
    /\ UNCHANGED <<caller, loaderVars, appVars, df1, df2, chunk_size, total,
                   valid_ids_set, start, duplicates, raised, fd_calls,
                   download>>

\* find_duplicates as a function of its arguments (lines 52-93)
RECURSIVE FdLoop(_, _, _, _)
FdLoop(d1, d2, cs, st) ==
    IF ~LoopHasNext(st, Len(d1)) THEN <<>>
    ELSE LET end == ChunkEnd(st, cs, Len(d1))
             matched_chunk == MatchedChunk(Chunk(d1, st, end), ValidIdsSet(d2))
         IN (IF matched_chunk # <<>> THEN <<Merge(matched_chunk, d2)>>
             ELSE <<>>) \o FdLoop(d1, d2, cs, st + cs)

find_duplicates(d1, d2, cs) == Flatten(FdLoop(d1, d2, cs, 0))

----------------------------------------------------------------------------
(* A direct call of find_duplicates on arbitrary collections *)

\* no file in the uploader (a falsy uploaded_file)
NoFile == [uploaded |-> FALSE, ok |-> FALSE, sheet_names |-> <<>>,
           sheets |-> <<>>]

InitMatcher ==
    /\ pc = "fd_call"
    /\ caller = "matcher"
    /\ upload = NoFile
    /\ sheet_names_to_load = <<>>
    /\ file1 = NoFile
    /\ file2 = NoFile
    /\ file1_selected_sheets = <<>>
    /\ file2_selected_sheets = <<>>
    /\ \E ids \in SeqsUpTo(Cells1, MaxRows1) : df1 = Frame(ids, "S1")
    /\ \E ids \in SeqsUpTo(Cells2, MaxRows2) : df2 = Frame(ids, "S1")
    /\ chunk_size \in 1..MaxChunk
    /\ total = 0
    /\ valid_ids_set = {}
    /\ start = 0
    /\ duplicates = <<>>
    /\ progress = <<0, 0>>
    /\ status_text = NoStatus
    /\ result = <<>>
    /\ msgs = <<>>
    /\ raised = "none"
    /\ fd_calls = 0
    /\ download = FALSE

NextMatcher == FdBegin \/ FdChunk \/ FdEnd

SpecMatcher == InitMatcher /\ [][NextMatcher]_vars

----------------------------------------------------------------------------
(* load_dataframe_from_selected_sheets *)

\* A file is [uploaded, ok, sheet_names, sheets]: ok is FALSE when the bytes
\* are not a readable workbook; sheets maps each sheet name to [has_id, ids], where
\* has_id tells whether the sheet has the identifier column and ids holds the
\* identifier cell of each data row (placeholders when the column is absent).
Sheet(has_id, ids) == [has_id |-> has_id, ids |-> ids]

InSeq(x, s) == \E k \in 1..Len(s) : s[k] = x

\* lines 31-34: read one sheet and standardize its identifier column
ReadSheet(file, name) ==
    [i \in 1..Len(file.sheets[name].ids) |->
        Row(Str(Standardize(file.sheets[name].ids[i])), name, i)]

\* variant: the loop stops at the first requested sheet that is not in the file
RECURSIVE LoadSheets_abort(_, _)
LoadSheets_abort(file, names) ==
    IF names = <<>> THEN [all_dfs |-> <<>>, msgs |-> <<>>]
    ELSE LET name == Head(names)
         IN IF InSeq(name, file.sheet_names)
            THEN LET rest == LoadSheets_abort(file, Tail(names))
                 IN IF file.sheets[name].has_id
                    THEN [all_dfs |-> <<ReadSheet(file, name)>>
                                      \o rest.all_dfs,
                          msgs |-> <<Msg("info", "loaded",
                                         Len(file.sheets[name].ids))>>
                                   \o rest.msgs]
                    ELSE [all_dfs |-> rest.all_dfs,
                          msgs |-> <<Msg("warning", "no_id_column", 0)>>
                                   \o rest.msgs]
            ELSE [all_dfs |-> <<>>,
                  msgs |-> <<Msg("warning", "sheet_not_found", 0)>>]

\* lines 29-39: the loop over the requested sheets
RECURSIVE LoadSheets(_, _)
LoadSheets(file, names) ==
    IF names = <<>> THEN [all_dfs |-> <<>>, msgs |-> <<>>]
    ELSE LET name == Head(names)
             rest == LoadSheets(file, Tail(names))
         IN IF InSeq(name, file.sheet_names)
            THEN IF file.sheets[name].has_id
                 THEN [all_dfs |-> <<ReadSheet(file, name)>> \o rest.all_dfs,
                       msgs |-> <<Msg("info", "loaded",
                                      Len(file.sheets[name].ids))>>
                                \o rest.msgs]
                 ELSE [all_dfs |-> rest.all_dfs,
                       msgs |-> <<Msg("warning", "no_id_column", 0)>>
                                \o rest.msgs]
            ELSE [all_dfs |-> rest.all_dfs,
                  msgs |-> <<Msg("warning", "sheet_not_found", 0)>>
                           \o rest.msgs]

\* variant: the check for an empty list of loaded sheets is missing
NothingLoaded_never(all_dfs) == FALSE

\* line 41: `if not all_dfs`
NothingLoaded(all_dfs) == all_dfs = <<>>

\* lines 22-49: the value returned and the messages written
load_dataframe_from_selected_sheets(file, names) ==
    IF ~file.ok
    THEN [df |-> <<>>, msgs |-> <<Msg("error", "load_failed", 0)>>]
    ELSE LET r == LoadSheets(file, names)
         IN IF NothingLoaded(r.all_dfs)
            THEN [df |-> <<>>,
                  msgs |-> r.msgs \o <<Msg("error", "no_usable_sheet", 0)>>]
            ELSE [df |-> Flatten(r.all_dfs), msgs |-> r.msgs]

\* a direct call of the loader
LoaderCall ==
    /\ pc = "load_call"
    /\ LET r == load_dataframe_from_selected_sheets(upload, sheet_names_to_load)
       IN /\ result' = r.df
          /\ msgs' = msgs \o r.msgs
    /\ pc' = "load_return"
    /\ UNCHANGED <<caller, loaderVars, appVars, df1, df2, fdVars, raised,
                   fd_calls, download>>

\* workbooks whose sheets are named by the sequence names
FilesWith(names, cells, maxrows, firstHasId) ==
    {[uploaded |-> TRUE, ok |-> TRUE, sheet_names |-> names, sheets |-> sh] :
        sh \in {f \in [{names[k] : k \in 1..Len(names)} ->
                        {Sheet(TRUE, ids) : ids \in SeqsUpTo(cells, maxrows)}
                        \cup {Sheet(FALSE, ids) :
                                ids \in SeqsUpTo({NaN}, maxrows)}] :
                  firstHasId => f[names[1]].has_id}}

BrokenFile == [uploaded |-> TRUE, ok |-> FALSE, sheet_names |-> <<>>,
               sheets |-> <<>>]

\* lines 8-19: the sheet names of an uploaded file, and the messages written
get_sheet_names(file) ==
    IF file.uploaded
    THEN IF file.ok
         THEN [names |-> file.sheet_names, msgs |-> <<>>]
         ELSE [names |-> <<>>,
               msgs |-> <<Msg("error", "sheet_names_failed", 0)>>]
    ELSE [names |-> <<>>, msgs |-> <<>>]

\* a direct call of get_sheet_names
GetSheetNamesCall ==
    /\ pc = "names_call"
    /\ LET r == get_sheet_names(upload)
       IN /\ result' = r.names
          /\ msgs' = msgs \o r.msgs
    /\ pc' = "names_return"
    /\ UNCHANGED <<caller, loaderVars, appVars, df1, df2, fdVars, raised,
                   fd_calls, download>>

\* the uploaded files handed to the loader
LoaderUploads ==
    {BrokenFile}
    \cup FilesWith(<<"S1">>, LoaderCells, MaxSheetRows, FALSE)
    \cup FilesWith(<<"S1", "S2">>, LoaderCells, MaxSheetRows, FALSE)

InitLoader ==
    /\ caller = "loader"
    /\ \/ /\ pc = "load_call"
          /\ upload \in LoaderUploads
          /\ sheet_names_to_load \in SeqsUpTo(RequestNames, MaxRequested)
       \/ /\ pc = "names_call"
          /\ upload \in LoaderUploads \cup {NoFile}
          /\ sheet_names_to_load = <<>>
    /\ file1 = NoFile
    /\ file2 = NoFile
    /\ file1_selected_sheets = <<>>
    /\ file2_selected_sheets = <<>>
    /\ df1 = <<>>
    /\ df2 = <<>>
    /\ chunk_size = DefaultChunkSize
    /\ total = 0
    /\ valid_ids_set = {}
    /\ start = 0
    /\ duplicates = <<>>
    /\ progress = <<0, 0>>
    /\ status_text = NoStatus
    /\ result = <<>>
    /\ msgs = <<>>
    /\ raised = "none"
    /\ fd_calls = 0
    /\ download = FALSE

NextLoader == LoaderCall \/ GetSheetNamesCall

SpecLoader == InitLoader /\ [][NextLoader]_vars

----------------------------------------------------------------------------
(* The script: widgets (lines 98-131) and the "Find Duplicates" button     *)
(* handler (lines 134-157)                                                 *)

\* line 135
NoSheetSelected(sel1, sel2) == sel1 = <<>> \/ sel2 = <<>>

\* variant: `or` in place of `and`
BothLoaded_or(d1, d2) == d1 # <<>> \/ d2 # <<>>

\* line 142: `not df1.empty and not df2.empty`
BothLoaded(d1, d2) == d1 # <<>> /\ d2 # <<>>

\* line 146: `not duplicates_df.empty`
HasDuplicates(d) == d # <<>>

\* lines 134-137: the button was pressed
Click ==
    /\ pc = "idle"
    /\ IF NoSheetSelected(file1_selected_sheets, file2_selected_sheets)
       THEN /\ msgs' = Append(msgs, Msg("warning", "select_sheets", 0))
            /\ pc' = "done"
       ELSE /\ msgs' = msgs
            /\ pc' = "loading"
    /\ UNCHANGED <<caller, loaderVars, appVars, df1, df2, fdVars, result,
                   raised, fd_calls, download>>

\* lines 138-140: both files are loaded
LoadData ==
    /\ pc = "loading"
    /\ LET r1 == load_dataframe_from_selected_sheets(file1,
                                                     file1_selected_sheets)
           r2 == load_dataframe_from_selected_sheets(file2,
                                                     file2_selected_sheets)
       IN /\ df1' = r1.df
          /\ df2' = r2.df
          /\ msgs' = msgs \o r1.msgs \o r2.msgs
    /\ pc' = "loaded"
    /\ UNCHANGED <<caller, loaderVars, appVars, fdVars, result, raised,
                   fd_calls, download>>

\* lines 142-144: enter find_duplicates with the default chunk size, or stop
CheckLoaded ==
    /\ pc = "loaded"
    /\ IF BothLoaded(df1, df2)
       THEN /\ chunk_size' = DefaultChunkSize
            /\ pc' = "fd_call"
       ELSE /\ chunk_size' = chunk_size
            /\ pc' = "done"
    /\ UNCHANGED <<caller, loaderVars, appVars, df1, df2, total,
                   valid_ids_set, start, duplicates, progress, status_text,
                   result, msgs, raised, fd_calls, download>>

\* lines 146-157: show the result and offer the report
ShowResults ==
    /\ pc = "fd_return"
    /\ caller = "app"
    /\ download' = HasDuplicates(result)
    /\ pc' = "done"
    /\ UNCHANGED <<caller, loaderVars, appVars, df1, df2, fdVars, result,
                   msgs, raised, fd_calls>>

\* duplicate-free sequences over the elements of s (st.multiselect values)
Selections(s) ==
    {q \in SeqsUpTo({s[k] : k \in 1..Len(s)}, Len(s)) :
        \A a, b \in 1..Len(q) : a # b => q[a] # q[b]}

\* lines 98-131 and 159-160: the script up to the button.  Without both
\* uploads only the hint is written; pd.read_excel on lines 116-117 is not
\* in a try, so an unreadable upload ends the run with the exception;
\* otherwise the sheet lists are read and the multiselects return the
\* user's selections among them.
RunScript ==
    /\ pc = "start"
    /\ IF ~(file1.uploaded /\ file2.uploaded)
       THEN /\ msgs' = Append(msgs, Msg("info", "upload_both", 0))
            /\ pc' = "done"
            /\ UNCHANGED <<file1_selected_sheets, file2_selected_sheets,
                           raised>>
       ELSE IF ~(file1.ok /\ file2.ok)
       THEN /\ raised' = "Exception"
            /\ pc' = "raised"
            /\ UNCHANGED <<file1_selected_sheets, file2_selected_sheets,
                           msgs>>
       ELSE LET file1_sheets == get_sheet_names(file1)
                file2_sheets == get_sheet_names(file2)
            IN /\ msgs' = msgs \o file1_sheets.msgs \o file2_sheets.msgs
               /\ file1_selected_sheets' \in Selections(file1_sheets.names)
               /\ file2_selected_sheets' \in Selections(file2_sheets.names)
               /\ pc' = "idle"
               /\ UNCHANGED raised
    /\ UNCHANGED <<caller, loaderVars, file1, file2, df1, df2, fdVars, result,
                   fd_calls, download>>

\* a widget interaction reruns the script: every local starts afresh
Rerun ==
    /\ pc \in {"idle", "done", "raised"}
    /\ pc' = "start"
    /\ file1_selected_sheets' = <<>>
    /\ file2_selected_sheets' = <<>>
    /\ df1' = <<>>
    /\ df2' = <<>>
    /\ chunk_size' = DefaultChunkSize
    /\ total' = 0
    /\ valid_ids_set' = {}
    /\ start' = 0
    /\ duplicates' = <<>>
    /\ progress' = <<0, 0>>
    /\ status_text' = NoStatus
    /\ result' = <<>>
    /\ msgs' = <<>>
    /\ raised' = "none"
    /\ fd_calls' = 0
    /\ download' = FALSE
    /\ UNCHANGED <<caller, loaderVars, file1, file2>>

\* the states of the two file uploaders
AppUploads(cells) ==
    {NoFile, BrokenFile}
    \cup FilesWith(<<"S1">>, cells, MaxAppRows, TRUE)
    \cup FilesWith(<<"S1", "S2">>, cells, MaxAppRows, TRUE)

InitApp ==
    /\ pc = "start"
    /\ caller = "app"
    /\ upload = NoFile
    /\ sheet_names_to_load = <<>>
    /\ file1 \in AppUploads(File1Cells)
    /\ file2 \in AppUploads(File2Cells)
    /\ file1_selected_sheets = <<>>
    /\ file2_selected_sheets = <<>>
    /\ df1 = <<>>
    /\ df2 = <<>>
    /\ chunk_size = DefaultChunkSize
    /\ total = 0
    /\ valid_ids_set = {}
    /\ start = 0
    /\ duplicates = <<>>
    /\ progress = <<0, 0>>
    /\ status_text = NoStatus
    /\ result = <<>>
    /\ msgs = <<>>
    /\ raised = "none"
    /\ fd_calls = 0
    /\ download = FALSE

Next ==
    \/ RunScript
    \/ Click
    \/ LoadData
    \/ CheckLoaded
    \/ FdBegin
    \/ FdChunk
    \/ FdEnd
    \/ ShowResults
    \/ Rerun

Spec == InitApp /\ [][Next]_vars

FairSpecMatcher == SpecMatcher /\ WF_vars(NextMatcher)

----------------------------------------------------------------------------
(* Properties *)

\* The normalized identifier of a cell (string cast, then trim), written out
\* for the cells used here: " A1 " and "A1" agree, "a1" differs from both,
\* a missing cell casts to the text nan.
Normalized(c) ==
    CASE c = NaN -> T_nan
      [] c = Str(T_A1pad) -> T_A1
      [] c = Str(T_A1ws) -> T_A1
      [] OTHER -> c.s

\* rows of the second collection that share the normalized identifier of c
\* and are part of the lookup set (not missing)
Partners(c, d2) ==
    SelectSeq(d2, LAMBDA r : ~isna(r.id) /\ Normalized(r.id) = Normalized(c))

\* output rows that derive from row r of the first collection
DerivedFrom(out, r) == SelectSeq(out, LAMBDA o : o.left = r)

HasMsg(sev) == \E k \in 1..Len(msgs) : msgs[k].sev = sev

CountMsg(sev) == Cardinality({k \in 1..Len(msgs) : msgs[k].sev = sev})

\* C1: the rows returned by find_duplicates, and their order, are the same
\* for every chunk size >= 1: the result of the run equals the result for
\* any other chunk size on the same two collections.
C1_ChunkSizeInvariant ==
    pc = "fd_return" =>
        \A c \in 1..(MaxChunk + 1) : result = find_duplicates(df1, df2, c)

C1_Witness ==
    /\ pc = "fd_return"
    /\ chunk_size = 1
    /\ total = 3
    /\ Len(duplicates) >= 2

\* C2: a row of the first collection derives an output row only if its
\* normalized identifier equals, case-sensitively, the normalized identifier
\* of some (non-missing) row of the second collection.
C2_MatchOnlyOnEqualNormalizedId ==
    pc = "fd_return" =>
        \A i \in 1..Len(df1) :
            DerivedFrom(result, df1[i]) # <<>> =>
                Partners(df1[i].id, df2) # <<>>

C2_Witness ==
    /\ pc = "fd_return"
    /\ df1 = Frame(<<Str(T_A1), Str(T_a1)>>, "S1")
    /\ df2 = Frame(<<Str(T_A1pad)>>, "S1")
    /\ Len(result) = 1
    /\ result[1].left = df1[1]

\* C3: every row of the first collection whose normalized identifier is in
\* the lookup set yields exactly one output row per row of the second
\* collection sharing that identifier, in order, each carrying that row's
\* fields; other rows yield none.
C3_FanOutPerPartner ==
    pc = "fd_return" =>
        \A i \in 1..Len(df1) :
            LET outs == DerivedFrom(result, df1[i])
            IN [k \in 1..Len(outs) |-> outs[k].right]
                   = Partners(df1[i].id, df2)

\* C4: a row of file 1 whose identifier cell is missing derives no output
\* row.
C4_MissingIdNeverMatches ==
    \A k \in 1..Len(result) :
        LET src == result[k].left.src
        IN ~isna(file1.sheets[src[1]].ids[src[2]])

\* C5: output rows appear in the order of the first-collection rows they
\* derive from: if x derives from row i and y from row j with i < j, then x
\* precedes y.
C5_OutputInInputOrder ==
    pc = "fd_return" =>
        \A x, y \in 1..Len(result) :
            result[x].left.src[2] < result[y].left.src[2] => x < y

C5_Witness ==
    /\ pc = "fd_return"
    /\ chunk_size = 2
    /\ total = 3
    /\ Len(duplicates) = 2
    /\ Len(result) >= 4

\* the requested sheet exists in the file and has the identifier column
C6_Retained(file, name) ==
    /\ \E k \in 1..Len(file.sheet_names) : file.sheet_names[k] = name
    /\ file.sheets[name].has_id

\* rows of the first n requested sheets, in requested order
RECURSIVE C6_Expected(_, _, _)
C6_Expected(file, names, n) ==
    IF n = 0 THEN <<>>
    ELSE C6_Expected(file, names, n - 1) \o
         (IF C6_Retained(file, names[n])
          THEN [i \in 1..Len(file.sheets[names[n]].ids) |->
                  [id |-> Str(Normalized(file.sheets[names[n]].ids[i])),
                   src |-> <<names[n], i>>]]
          ELSE <<>>)

\* C6: for a readable file the loader returns exactly the rows (identifier
\* normalized) of the requested sheets that exist and have the identifier
\* column, in requested-sheet order and in-sheet row order; every other
\* requested sheet adds no rows and exactly one warning.
C6_LoaderRowsAndWarnings ==
    pc = "load_return" /\ upload.ok =>
        /\ result = C6_Expected(upload, sheet_names_to_load,
                                Len(sheet_names_to_load))
        /\ CountMsg("warning") =
              Cardinality({k \in 1..Len(sheet_names_to_load) :
                             ~C6_Retained(upload, sheet_names_to_load[k])})

C6_Witness ==
    /\ pc = "load_return"
    /\ upload.ok
    /\ sheet_names_to_load = <<"S3", "S1">>
    /\ Len(result) = 2
    /\ CountMsg("warning") = 1

\* C7 as stated: the loader never returns an empty collection without
\* having reported an error.
C7_EmptyImpliesError ==
    pc = "load_return" /\ result = <<>> => HasMsg("error")

\* C7 amended: when no requested sheet is retained (or the file is
\* unreadable) the loader reports an error and returns an empty collection;
\* an empty collection without an error is returned only when some requested
\* sheet was retained and every retained sheet has no data rows.
C7_NoSheetRetainedImpliesError ==
    pc = "load_return" =>
        LET kept == {k \in 1..Len(sheet_names_to_load) :
                        upload.ok /\ C6_Retained(upload,
                                                 sheet_names_to_load[k])}
        IN /\ kept = {} => result = <<>> /\ HasMsg("error")
           /\ (result = <<>> /\ ~HasMsg("error")) =>
                 /\ kept # {}
                 /\ \A k \in kept :
                       upload.sheets[sheet_names_to_load[k]].ids = <<>>

C7_Witness ==
    /\ pc = "load_return"
    /\ upload.ok
    /\ Len(sheet_names_to_load) = 2
    /\ result = <<>>
    /\ HasMsg("error")
    /\ CountMsg("warning") = 2

\* no row of the first collection has a partner in the second
NoRowMatches == \A i \in 1..Len(df1) : Partners(df1[i].id, df2) = <<>>

\* C8: when no row matches (also when the first collection has no rows)
\* find_duplicates raises nothing, terminates, and returns an empty result
\* with a success message and no error message.
C8_NoMatchTerminatesWithSuccess ==
    /\ [](NoRowMatches => raised = "none" /\ pc # "raised")
    /\ [](pc = "fd_return" /\ NoRowMatches =>
            /\ result = <<>>
            /\ msgs = <<Msg("success", "none_found", 0)>>)
    /\ (NoRowMatches ~> pc = "fd_return")

C8_Witness ==
    /\ pc = "fd_return"
    /\ total = 0
    /\ df2 # <<>>
    /\ result = <<>>
    /\ msgs = <<Msg("success", "none_found", 0)>>

\* C9: every output row carries the fields of a second-collection row whose
\* normalized identifier equals the normalized identifier of the
\* first-collection row it derives from.
C9_EnrichmentUsesNormalizedKey ==
    pc = "fd_return" =>
        \A k \in 1..Len(result) :
            /\ result[k].right # NaNRow
            /\ Normalized(result[k].right.id) = Normalized(result[k].left.id)

\* C10: find_duplicates is entered only after both files were loaded with
\* at least one row each, and the download is offered only after
\* find_duplicates returned a non-empty result.
C10_MatchAfterLoadDownloadAfterMatch ==
    /\ fd_calls > 0 =>
          /\ pc \in {"fd_loop", "fd_return", "done"}
          /\ df1 # <<>>
          /\ df2 # <<>>
    /\ (pc \in {"loaded", "done"} /\ (df1 = <<>> \/ df2 = <<>>)) =>
          fd_calls = 0
    /\ download =>
          /\ pc = "done"
          /\ fd_calls = 1
          /\ result # <<>>
          /\ HasMsg("success")

C10_Witness ==
    /\ pc = "done"
    /\ download
    /\ fd_calls = 1
    /\ Len(file1_selected_sheets) = 2

====
